---------------------------- MODULE Spec2Model ----------------------------
(***************************************************************************)
(* The windoge98 faucet canister (src/windoge98-faucet-backend/src/lib.rs) *)
(* as a state machine.  state is the canister's thread_local STATE; every  *)
(* update call, and each of the two upgrade hooks, is one action.  The     *)
(* host runs each message to completion, and a trapping message (a failed  *)
(* assert!, an unwrap of Err) has all its writes rolled back, so a failed  *)
(* call leaves state as it was and only its outcome is recorded, in last.  *)
(***************************************************************************)
EXTENDS Naturals, Sequences, FiniteSets

(***************************************************************************)
(* Bounds of the model.                                                    *)
(***************************************************************************)
\* Principals that call the canister.
Principals == {"p1", "p2"}
\* Strings that are passed as a faucet code; "" is String::default().
Codes == {"", "ABC123", "abc123"}
\* u64 values that are passed as a faucet amount; 0 is u64::default().
Amounts == {0, 5}
\* Successful claims made in one behaviour of Spec.
MaxClaims == 2
\* Successful claims made in one behaviour of SpecLong.
MaxLongClaims == 11
\* Successful claims and successful resets made in one behaviour of SpecAudit.
MaxAuditClaims == 3
MaxResets == 2

VARIABLES
    state,     \* the State struct held by the thread_local STATE
    stable,    \* the snapshot written to stable memory by the upgrade in progress
    phase,     \* "created" | "running" | "upgrading"
    last,      \* the last message executed and how it ended
    audit      \* history kept by SpecAudit: the successful resets so far, and
               \* the length total_claims had at the latest of them

vars == <<state, stable, phase, last, audit>>

(***************************************************************************)
(* Helpers for Vec, VecDeque and HashSet.                                  *)
(***************************************************************************)
Range(s) == {s[i] : i \in DOMAIN s}

\* Vec::contains
Contains(s, x) == \E i \in DOMAIN s : s[i] = x

\* The orders in which a HashSet's elements can be iterated.
Orders(S) ==
    {s \in [1..Cardinality(S) -> S] : \A i, j \in DOMAIN s : i # j => s[i] # s[j]}

NoSnapshot == <<>>

\* #[derive(Default)] State
DefaultState ==
    [custodians         |-> {},
     is_faucet_enabled  |-> FALSE,
     faucet_code        |-> "",
     faucet_amount      |-> 0,
     claimed_principals |-> <<>>,
     recent_claims      |-> <<>>,
     total_claims       |-> <<>>]

\* What a message records in last.
Outcome(op, result) == [op |-> op, result |-> result]

Init ==
    /\ state = DefaultState
    /\ stable = NoSnapshot
    /\ phase = "created"
    /\ last = Outcome("none", "None")
    /\ audit = [resets |-> 0, mark |-> 0]

(***************************************************************************)
(* Canister initialization.                                                *)
(***************************************************************************)
\* Mutant: the canister comes up with the faucet enabled.
init_Enables(caller) ==
    /\ phase = "created"
    /\ state' = [state EXCEPT !.custodians = @ \cup {caller},
                              !.is_faucet_enabled = TRUE]
    /\ phase' = "running"
    /\ last' = Outcome("init", "Ok")
    /\ UNCHANGED stable

init(caller) ==
    /\ phase = "created"
    /\ state' = [state EXCEPT !.custodians = @ \cup {caller}]
    /\ phase' = "running"
    /\ last' = Outcome("init", "Ok")
    /\ UNCHANGED stable

(***************************************************************************)
(* The authorization check every administrative update starts with:        *)
(* state.custodians.contains(&api::caller()).                              *)
(***************************************************************************)
\* Mutant: the assertion is missing.
is_custodian_Unchecked(s, caller) == TRUE

is_custodian(s, caller) == caller \in s.custodians

\* Each administrative update asserts is_custodian first: when the assertion
\* fails the message traps and the state stays as it was.
\* Mutant: with no custodian left, anyone may add one.
add_custodian_Bootstrap(caller, custodian) ==
    /\ phase = "running"
    /\ IF is_custodian(state, caller) \/ state.custodians = {}
          THEN /\ state' = [state EXCEPT !.custodians = @ \cup {custodian}]
               /\ last' = Outcome("add_custodian", "Ok")
          ELSE /\ state' = state
               /\ last' = Outcome("add_custodian", "Unauthorized")
    /\ UNCHANGED <<stable, phase>>

add_custodian(caller, custodian) ==
    /\ phase = "running"
    /\ IF is_custodian(state, caller)
          THEN /\ state' = [state EXCEPT !.custodians = @ \cup {custodian}]
               /\ last' = Outcome("add_custodian", "Ok")
          ELSE /\ state' = state
               /\ last' = Outcome("add_custodian", "Unauthorized")
    /\ UNCHANGED <<stable, phase>>

remove_custodian(caller, custodian) ==
    /\ phase = "running"
    /\ IF is_custodian(state, caller)
          THEN /\ state' = [state EXCEPT !.custodians = @ \ {custodian}]
               /\ last' = Outcome("remove_custodian", "Ok")
          ELSE /\ state' = state
               /\ last' = Outcome("remove_custodian", "Unauthorized")
    /\ UNCHANGED <<stable, phase>>

\* Mutant: toggling the faucet starts a new round of claims.
toggle_faucet_ClearsClaimed(caller, is_enabled) ==
    /\ phase = "running"
    /\ IF is_custodian(state, caller)
          THEN /\ state' = [state EXCEPT !.is_faucet_enabled = is_enabled,
                                         !.claimed_principals = <<>>]
               /\ last' = Outcome("toggle_faucet", "Ok")
          ELSE /\ state' = state
               /\ last' = Outcome("toggle_faucet", "Unauthorized")
    /\ UNCHANGED <<stable, phase>>

toggle_faucet(caller, is_enabled) ==
    /\ phase = "running"
    /\ IF is_custodian(state, caller)
          THEN /\ state' = [state EXCEPT !.is_faucet_enabled = is_enabled]
               /\ last' = Outcome("toggle_faucet", "Ok")
          ELSE /\ state' = state
               /\ last' = Outcome("toggle_faucet", "Unauthorized")
    /\ UNCHANGED <<stable, phase>>

set_faucet_code(caller, code) ==
    /\ phase = "running"
    /\ IF is_custodian(state, caller)
          THEN /\ state' = [state EXCEPT !.faucet_code = code]
               /\ last' = Outcome("set_faucet_code", "Ok")
          ELSE /\ state' = state
               /\ last' = Outcome("set_faucet_code", "Unauthorized")
    /\ UNCHANGED <<stable, phase>>

set_faucet_amount(caller, amount) ==
    /\ phase = "running"
    /\ IF is_custodian(state, caller)
          THEN /\ state' = [state EXCEPT !.faucet_amount = amount]
               /\ last' = Outcome("set_faucet_amount", "Ok")
          ELSE /\ state' = state
               /\ last' = Outcome("set_faucet_amount", "Unauthorized")
    /\ UNCHANGED <<stable, phase>>

\* Mutant: the reset clears the history as well.
reset_ClearsHistory(caller) ==
    /\ phase = "running"
    /\ IF is_custodian(state, caller)
          THEN /\ state' = [state EXCEPT !.claimed_principals = <<>>,
                                         !.total_claims = <<>>]
               /\ last' = Outcome("reset_claimed_principals", "Ok")
          ELSE /\ state' = state
               /\ last' = Outcome("reset_claimed_principals", "Unauthorized")
    /\ UNCHANGED <<stable, phase>>

reset_claimed_principals(caller) ==
    /\ phase = "running"
    /\ IF is_custodian(state, caller)
          THEN /\ state' = [state EXCEPT !.claimed_principals = <<>>]
               /\ last' = Outcome("reset_claimed_principals", "Ok")
          ELSE /\ state' = state
               /\ last' = Outcome("reset_claimed_principals", "Unauthorized")
    /\ UNCHANGED <<stable, phase>>

(***************************************************************************)
(* Claim faucet.  The three assertions, in the order the code makes them;  *)
(* the first that fails traps with its message.                            *)
(***************************************************************************)
\* Mutant: the code is compared before the enabled flag is looked at.
claim_check_CodeFirst(s, caller, code) ==
    IF code # s.faucet_code THEN "InvalidCode"
    ELSE IF ~s.is_faucet_enabled THEN "FaucetDisabled"
    ELSE IF Contains(s.claimed_principals, caller) THEN "AlreadyClaimed"
    ELSE "Ok"

\* Mutant: the code is compared ignoring case.
Lower(code) == IF code = "ABC123" THEN "abc123" ELSE code

claim_check_IgnoreCase(s, caller, code) ==
    IF ~s.is_faucet_enabled THEN "FaucetDisabled"
    ELSE IF Lower(code) # Lower(s.faucet_code) THEN "InvalidCode"
    ELSE IF Contains(s.claimed_principals, caller) THEN "AlreadyClaimed"
    ELSE "Ok"

\* Mutant: the already-claimed assertion is missing.
claim_check_NoDup(s, caller, code) ==
    IF ~s.is_faucet_enabled THEN "FaucetDisabled"
    ELSE IF code # s.faucet_code THEN "InvalidCode"
    ELSE "Ok"

\* Mutant: the already-claimed assertion is made before the code is compared.
claim_check_ClaimedFirst(s, caller, code) ==
    IF ~s.is_faucet_enabled THEN "FaucetDisabled"
    ELSE IF Contains(s.claimed_principals, caller) THEN "AlreadyClaimed"
    ELSE IF code # s.faucet_code THEN "InvalidCode"
    ELSE "Ok"

claim_check(s, caller, code) ==
    IF ~s.is_faucet_enabled THEN "FaucetDisabled"
    ELSE IF code # s.faucet_code THEN "InvalidCode"
    ELSE IF Contains(s.claimed_principals, caller) THEN "AlreadyClaimed"
    ELSE "Ok"

\* Mutant: the caller is not remembered as having claimed.
record_claim_Forgets(s, caller) ==
    [s EXCEPT
       !.recent_claims = Append(@, <<caller, s.faucet_amount>>),
       !.total_claims  = Append(@, <<caller, s.faucet_amount>>)]

\* Mutant: the claim is inserted at the front of the history.
record_claim_Front(s, caller) ==
    [s EXCEPT
       !.claimed_principals = Append(@, caller),
       !.recent_claims      = Append(@, <<caller, s.faucet_amount>>),
       !.total_claims       = <<<<caller, s.faucet_amount>>>> \o @]

\* Mutant: the claim is recorded with amount 0, not the amount in force.
record_claim_NoAmount(s, caller) ==
    [s EXCEPT
       !.claimed_principals = Append(@, caller),
       !.recent_claims      = Append(@, <<caller, 0>>),
       !.total_claims       = Append(@, <<caller, 0>>)]

\* Mutant: the recent claim is pushed to the front of the deque.
record_claim_RecentFront(s, caller) ==
    [s EXCEPT
       !.claimed_principals = Append(@, caller),
       !.recent_claims      = <<<<caller, s.faucet_amount>>>> \o @,
       !.total_claims       = Append(@, <<caller, s.faucet_amount>>)]

\* The three pushes of a claim that passed the assertions.
record_claim(s, caller) ==
    [s EXCEPT
       !.claimed_principals = Append(@, caller),
       !.recent_claims      = Append(@, <<caller, s.faucet_amount>>),
       !.total_claims       = Append(@, <<caller, s.faucet_amount>>)]

\* Mutant: the caller is pushed onto claimed_principals before the
\* assertions, with nothing undoing it when one fails.
claim_faucet_MarksFirst(caller, code) ==
    /\ phase = "running"
    /\ last' = Outcome("claim_faucet", claim_check(state, caller, code))
    /\ IF claim_check(state, caller, code) = "Ok"
          THEN state' = record_claim(state, caller)
          ELSE state' = [state EXCEPT !.claimed_principals = Append(@, caller)]
    /\ UNCHANGED <<stable, phase>>

claim_faucet(caller, code) ==
    /\ phase = "running"
    /\ last' = Outcome("claim_faucet", claim_check(state, caller, code))
    /\ IF claim_check(state, caller, code) = "Ok"
          THEN state' = record_claim(state, caller)
          ELSE state' = state
    /\ UNCHANGED <<stable, phase>>

(***************************************************************************)
(* Queries.                                                                *)
(***************************************************************************)
get_recent_claims == state.recent_claims

get_total_claims == state.total_claims

(***************************************************************************)
(* Upgrade hooks.  stable_save Candid-encodes the State: the HashSet of    *)
(* custodians goes out as a vec in the set's iteration order, the Vec and  *)
(* the VecDeque as vecs front to back.  stable_restore decodes the vec of  *)
(* custodians by inserting each element into a fresh HashSet.              *)
(***************************************************************************)
Encodings(s) ==
    {[s EXCEPT !.custodians = order] : order \in Orders(s.custodians)}

\* Mutant: the recent claims are restored by pushing each to the front.
Reverse(s) == [i \in DOMAIN s |-> s[Len(s) + 1 - i]]

Decode_Reversed(bytes) ==
    [bytes EXCEPT !.custodians = Range(@), !.recent_claims = Reverse(@)]

\* Mutant: the claimed principals are not restored.
Decode_DropsClaimed(bytes) ==
    [bytes EXCEPT !.custodians = Range(@), !.claimed_principals = <<>>]

Decode(bytes) == [bytes EXCEPT !.custodians = Range(@)]

\* Mutant: the Err of stable_save is dropped instead of unwrapped, so the
\* upgrade goes on with the part of the snapshot that was written.
pre_upgrade_IgnoresError ==
    /\ phase = "running"
    /\ \/ /\ stable' \in Encodings(state)
          /\ phase' = "upgrading"
          /\ last' = Outcome("pre_upgrade", "Ok")
       \/ /\ stable' \in Encodings([state EXCEPT !.total_claims = <<>>])
          /\ phase' = "upgrading"
          /\ last' = Outcome("pre_upgrade", "SerializationFailure")
    /\ UNCHANGED state

\* stable_save either writes the snapshot or returns Err, which the unwrap
\* turns into a trap: the host then cancels the upgrade and the canister
\* goes on running with its state, stable memory included, as it was.
pre_upgrade ==
    /\ phase = "running"
    /\ \/ /\ stable' \in Encodings(state)
          /\ phase' = "upgrading"
          /\ last' = Outcome("pre_upgrade", "Ok")
       \/ /\ stable' = stable
          /\ phase' = phase
          /\ last' = Outcome("pre_upgrade", "SerializationFailure")
    /\ UNCHANGED state

\* The upgraded module starts from State::default() and post_upgrade
\* replaces it by the decoded snapshot, which the upgrade thereby consumes:
\* the next pre_upgrade overwrites it before anything reads it again.
post_upgrade ==
    /\ phase = "upgrading"
    /\ state' = Decode(stable)
    /\ stable' = NoSnapshot
    /\ phase' = "running"
    /\ last' = Outcome("post_upgrade", "Ok")

(***************************************************************************)
(* The canister's messages, with their arguments drawn from the sets P, C  *)
(* and A, and at most max claims recorded.                                 *)
(***************************************************************************)
WithinBound(caller, code, max) ==
    claim_check(state, caller, code) = "Ok" => Len(state.total_claims) < max

\* The canister keeps no history of its resets: here audit stays as it is.
Next ==
    \/ \E p \in Principals : init(p) /\ UNCHANGED audit
    \/ \E p, q \in Principals : add_custodian(p, q) /\ UNCHANGED audit
    \/ \E p, q \in Principals : remove_custodian(p, q) /\ UNCHANGED audit
    \/ \E p \in Principals, b \in BOOLEAN :
          toggle_faucet(p, b) /\ UNCHANGED audit
    \/ \E p \in Principals, c \in Codes :
          set_faucet_code(p, c) /\ UNCHANGED audit
    \/ \E p \in Principals, a \in Amounts :
          set_faucet_amount(p, a) /\ UNCHANGED audit
    \/ \E p \in Principals : reset_claimed_principals(p) /\ UNCHANGED audit
    \/ \E p \in Principals, c \in Codes :
          WithinBound(p, c, MaxClaims) /\ claim_faucet(p, c) /\ UNCHANGED audit
    \/ pre_upgrade /\ UNCHANGED audit
    \/ post_upgrade /\ UNCHANGED audit

Spec == Init /\ [][Next]_vars

(***************************************************************************)
(* A long run of claims: the deployer enables the faucet and the           *)
(* principals claim with the default code, the deployer resetting the      *)
(* claimed principals in between.                                          *)
(***************************************************************************)
NextLong ==
    \/ init("p1") /\ UNCHANGED audit
    \/ toggle_faucet("p1", TRUE) /\ UNCHANGED audit
    \/ reset_claimed_principals("p1") /\ UNCHANGED audit
    \/ \E p \in Principals :
          /\ WithinBound(p, "", MaxLongClaims)
          /\ claim_faucet(p, "")
          /\ UNCHANGED audit

SpecLong == Init /\ [][NextLong]_vars

(***************************************************************************)
(* Rounds of claims with the resets counted: the principals claim with the *)
(* default code, custodians reset the claimed principals and the canister  *)
(* is upgraded, while audit records each successful reset.                 *)
(***************************************************************************)
Observe ==
    audit' = IF last' = Outcome("reset_claimed_principals", "Ok")
                THEN [resets |-> audit.resets + 1,
                      mark   |-> Len(state.total_claims)]
                ELSE audit

NextAudit ==
    \/ \E p \in Principals : init(p) /\ Observe
    \/ \E p, q \in Principals : add_custodian(p, q) /\ Observe
    \/ \E p \in Principals : toggle_faucet(p, TRUE) /\ Observe
    \/ \E p \in Principals :
          /\ is_custodian(state, p) => audit.resets < MaxResets
          /\ reset_claimed_principals(p)
          /\ Observe
    \/ \E p \in Principals :
          /\ WithinBound(p, "", MaxAuditClaims)
          /\ claim_faucet(p, "")
          /\ Observe
    \/ pre_upgrade /\ Observe
    \/ post_upgrade /\ Observe

SpecAudit == Init /\ [][NextAudit]_vars

(***************************************************************************)
(* Properties.                                                             *)
(***************************************************************************)
Claimed(s, x) == Contains(s.claimed_principals, x)

ClaimSucceeded == last' = Outcome("claim_faucet", "Ok")

ResetSucceeded == last' = Outcome("reset_claimed_principals", "Ok")

LogsUnchanged ==
    /\ state'.recent_claims = state.recent_claims
    /\ state'.total_claims = state.total_claims

\* C1 (uniqueness): a successful claim_faucet by X makes X a claimed
\* principal; X stays one through every step that is not a successful
\* reset_claimed_principals; and while X is one, a claim_faucet by X with the
\* faucet enabled and the right code fails with AlreadyClaimed and adds no
\* entry to either log.
C1_Step ==
    \A x \in Principals :
        /\ \A c \in Codes :
              claim_faucet(x, c) /\ ClaimSucceeded => Claimed(state', x)
        /\ Claimed(state, x) /\ ~ResetSucceeded => Claimed(state', x)
        /\ \A c \in Codes :
              /\ Claimed(state, x)
              /\ state.is_faucet_enabled
              /\ c = state.faucet_code
              /\ claim_faucet(x, c)
              => /\ last' = Outcome("claim_faucet", "AlreadyClaimed")
                 /\ LogsUnchanged

\* C1: every step keeps a successful claimant from claiming again before a reset.
C1_Uniqueness == [][C1_Step]_vars

C1_Witness ==
    /\ last = Outcome("claim_faucet", "AlreadyClaimed")
    /\ Len(state.total_claims) >= 1

\* C2 (gate correctness): each of the six administrative updates, invoked by
\* a principal that is not a custodian, fails with Unauthorized and leaves
\* every field of the state unchanged.
AdminCall(y) ==
    \/ \E q \in Principals : add_custodian(y, q)
    \/ \E q \in Principals : remove_custodian(y, q)
    \/ \E b \in BOOLEAN : toggle_faucet(y, b)
    \/ \E c \in Codes : set_faucet_code(y, c)
    \/ \E a \in Amounts : set_faucet_amount(y, a)
    \/ reset_claimed_principals(y)

C2_Step ==
    \A y \in Principals :
        y \notin state.custodians /\ AdminCall(y)
        => /\ last'.result = "Unauthorized"
           /\ state'.custodians = state.custodians
           /\ state'.is_faucet_enabled = state.is_faucet_enabled
           /\ state'.faucet_code = state.faucet_code
           /\ state'.faucet_amount = state.faucet_amount
           /\ state'.claimed_principals = state.claimed_principals
           /\ state'.recent_claims = state.recent_claims
           /\ state'.total_claims = state.total_claims

\* C2: every administrative call by a non-custodian is refused and changes nothing.
C2_GateCorrectness == [][C2_Step]_vars

C2_Witness ==
    /\ last = Outcome("toggle_faucet", "Unauthorized")
    /\ state.is_faucet_enabled
    /\ state.total_claims # <<>>

\* C3 (bounded recency): recent_claims never holds more than 10 entries, and
\* after more than 10 successful claims get_recent_claims returns the 10 most
\* recent entries of get_total_claims.
C3_BoundedRecency ==
    /\ Len(get_recent_claims) <= 10
    /\ Len(get_total_claims) > 10
       => get_recent_claims
            = SubSeq(get_total_claims, Len(get_total_claims) - 9,
                     Len(get_total_claims))

\* C4 (admin set never empty): once init has run, the custodian set is
\* never empty.
C4_CustodiansNeverEmpty == phase # "created" => state.custodians # {}

\* C5 (persistence round trip): pre_upgrade leaves the live state alone and
\* writes a snapshot that decodes to it, and post_upgrade installs a state
\* equal in every field to the state pre_upgrade was run in.
C5_Step ==
    /\ last' = Outcome("pre_upgrade", "Ok")
       => state' = state /\ Decode(stable') = state
    /\ last' = Outcome("post_upgrade", "Ok")
       => /\ state'.custodians = state.custodians
          /\ state'.is_faucet_enabled = state.is_faucet_enabled
          /\ state'.faucet_code = state.faucet_code
          /\ state'.faucet_amount = state.faucet_amount
          /\ state'.claimed_principals = state.claimed_principals
          /\ state'.recent_claims = state.recent_claims
          /\ state'.total_claims = state.total_claims

\* C5: every pre_upgrade and post_upgrade step preserves the state in every field.
C5_RoundTrip == [][C5_Step]_vars

C5_Witness ==
    /\ last = Outcome("post_upgrade", "Ok")
    /\ Cardinality(state.custodians) = 2
    /\ state.is_faucet_enabled
    /\ state.faucet_code = "ABC123"
    /\ state.faucet_amount = 5
    /\ Len(state.claimed_principals) = 1
    /\ Len(state.recent_claims) = 2
    /\ state.recent_claims[1] # state.recent_claims[2]

\* C6 (disabled gate): while the faucet is disabled, claim_faucet by any
\* caller with any code fails with FaucetDisabled and changes nothing.
C6_Step ==
    \A p \in Principals, c \in Codes :
        ~state.is_faucet_enabled /\ claim_faucet(p, c)
        => /\ last' = Outcome("claim_faucet", "FaucetDisabled")
           /\ UNCHANGED <<state, stable, phase>>

\* C6: every claim_faucet step taken with the faucet disabled fails with FaucetDisabled.
C6_DisabledGate == [][C6_Step]_vars

C6_Witness ==
    /\ last = Outcome("claim_faucet", "FaucetDisabled")
    /\ ~state.is_faucet_enabled
    /\ state.faucet_code = "ABC123"
    /\ state.claimed_principals = <<>>

\* C7 (code exactness): with the faucet enabled, claim_faucet with a string
\* other than the current code fails with InvalidCode whoever calls; and
\* after a successful set_faucet_code to another string the code that was
\* valid before is no longer accepted from anyone.
C7_Step ==
    /\ \A p \in Principals, c \in Codes :
          state.is_faucet_enabled /\ c # state.faucet_code /\ claim_faucet(p, c)
          => /\ last' = Outcome("claim_faucet", "InvalidCode")
             /\ state' = state
    /\ \A p \in Principals, c \in Codes :
          /\ set_faucet_code(p, c)
          /\ last'.result = "Ok"
          /\ c # state.faucet_code
          /\ state'.is_faucet_enabled
          => \A x \in Principals :
                claim_check(state', x, state.faucet_code) = "InvalidCode"

C8_Step ==
    /\ ResetSucceeded
       => /\ LogsUnchanged
          /\ \A x \in Range(state.claimed_principals) :
                state'.is_faucet_enabled
                => claim_check(state', x, state'.faucet_code) = "Ok"
    /\ \A x \in Principals, c \in Codes :
          claim_faucet(x, c) /\ ClaimSucceeded
          => state'.total_claims
               = Append(state.total_claims, <<x, state.faucet_amount>>)

\* C8: every reset keeps the logs and re-admits the claimants; every claim appends.
C8_ResetIndependence == [][C8_Step]_vars

C8_Witness ==
    /\ last = Outcome("claim_faucet", "Ok")
    /\ \E i, j \in DOMAIN state.total_claims :
          i < j /\ state.total_claims[i][1] = state.total_claims[j][1]

\* C9 (no duplicates): no principal occurs twice in claimed_principals.
C9_NoDuplicates ==
    \A i, j \in DOMAIN state.claimed_principals :
        i # j => state.claimed_principals[i] # state.claimed_principals[j]

C9_Witness ==
    /\ last = Outcome("post_upgrade", "Ok")
    /\ Len(state.claimed_principals) = 1
    /\ Len(state.total_claims) = 2
    /\ state.total_claims[1][1] = state.claimed_principals[1]
    /\ state.total_claims[2][1] = state.claimed_principals[1]

\* C10 (append-only history): a successful claim appends exactly one entry
\* to total_claims and every other step leaves total_claims as it was.
C10_Step ==
    IF ClaimSucceeded
    THEN \E x \in Principals :
            state'.total_claims
              = Append(state.total_claims, <<x, state.faucet_amount>>)
    ELSE state'.total_claims = state.total_claims

\* C10: in every step the old total_claims is a prefix of the new one, longer by
\* one entry exactly when the step is a successful claim.
C10_AppendOnly == [][C10_Step]_vars

C10_Witness ==
    /\ last = Outcome("reset_claimed_principals", "Ok")
    /\ Len(state.total_claims) = 2
    /\ state.total_claims[1][2] # state.total_claims[2][2]

\* C11 (initial state): init called by D leaves the custodians exactly {D},
\* the faucet disabled, the code empty, the amount 0 and the claimed
\* principals and both logs empty; the faucet goes from disabled to enabled
\* only by a successful toggle_faucet(true) of a custodian, and a claim
\* succeeds only with the faucet enabled.
C11_Step ==
    /\ \A d \in Principals :
          init(d)
          => /\ state'.custodians = {d}
             /\ state'.is_faucet_enabled = FALSE
             /\ state'.faucet_code = ""
             /\ state'.faucet_amount = 0
             /\ state'.claimed_principals = <<>>
             /\ state'.recent_claims = <<>>
             /\ state'.total_claims = <<>>
    /\ ~state.is_faucet_enabled /\ state'.is_faucet_enabled
       => /\ last' = Outcome("toggle_faucet", "Ok")
          /\ \E p \in state.custodians : toggle_faucet(p, TRUE)
    /\ ClaimSucceeded => state.is_faucet_enabled

\* C11: every init step yields the initial state and no claim succeeds
\* before a custodian has enabled the faucet.
C11_InitialState == [][C11_Step]_vars

C11_Witness ==
    /\ last = Outcome("init", "Ok")
    /\ state.custodians = {"p2"}
    /\ phase = "running"

\* C12 (suspend failure): a pre_upgrade whose serialisation fails leaves the
\* canister running with every field and the stable memory unchanged, and
\* post_upgrade runs only after a pre_upgrade that completed, installing
\* exactly the state that pre_upgrade saved.
C12_Step ==
    /\ last' = Outcome("pre_upgrade", "SerializationFailure")
       => /\ phase = "running" /\ phase' = "running"
          /\ state' = state
          /\ stable' = stable
    /\ last' = Outcome("post_upgrade", "Ok")
       => /\ last = Outcome("pre_upgrade", "Ok")
          /\ Decode(stable) = state
          /\ state' = state
    /\ phase = "running" => stable = NoSnapshot

\* C12: every failed suspend is rolled back and every resume installs a
\* complete snapshot.
C12_SuspendFailure == [][C12_Step]_vars

C12_Witness ==
    /\ last = Outcome("pre_upgrade", "SerializationFailure")
    /\ phase = "running"
    /\ Len(state.total_claims) = 2
    /\ state.custodians # {}

\* C13 (precondition order): claim_faucet reports the first failing
\* precondition in the order enabled, code, not-already-claimed: a disabled
\* faucet gives FaucetDisabled whatever the code and the caller, an enabled
\* faucet with a wrong code gives InvalidCode whether or not the caller has
\* claimed, and AlreadyClaimed is reported only with the faucet enabled and
\* the right code.
C13_Step ==
    \A x \in Principals, c \in Codes :
        claim_faucet(x, c)
        => /\ ~state.is_faucet_enabled => last'.result = "FaucetDisabled"
           /\ state.is_faucet_enabled /\ c # state.faucet_code
              => last'.result = "InvalidCode"
           /\ last'.result = "AlreadyClaimed"
              => /\ state.is_faucet_enabled
                 /\ c = state.faucet_code
                 /\ Claimed(state, x)

\* C13: every claim_faucet step reports the first failing precondition.
C13_PreconditionOrder == [][C13_Step]_vars

\* An enabled faucet refuses a wrong code from a caller that has claimed
\* (every principal has).
C13_Witness ==
    /\ last = Outcome("claim_faucet", "InvalidCode")
    /\ state.is_faucet_enabled
    /\ Range(state.claimed_principals) = Principals

\* C14 (failed claim): a claim_faucet that fails with FaucetDisabled,
\* InvalidCode or AlreadyClaimed leaves every field of the state as it was.
C14_Step ==
    last'.op = "claim_faucet" /\ last'.result # "Ok"
    => /\ last'.result \in {"FaucetDisabled", "InvalidCode", "AlreadyClaimed"}
       /\ state'.custodians = state.custodians
       /\ state'.is_faucet_enabled = state.is_faucet_enabled
       /\ state'.faucet_code = state.faucet_code
       /\ state'.faucet_amount = state.faucet_amount
       /\ state'.claimed_principals = state.claimed_principals
       /\ state'.recent_claims = state.recent_claims
       /\ state'.total_claims = state.total_claims

\* C14: every failed claim_faucet step changes nothing.
C14_FailedClaim == [][C14_Step]_vars

C14_Witness ==
    /\ last = Outcome("claim_faucet", "InvalidCode")
    /\ Len(state.claimed_principals) = 1
    /\ Len(state.total_claims) = 2

\* C15 (successful claim): with the faucet enabled, the right code and a
\* caller C that is not a claimed principal, claim_faucet succeeds, pushes C
\* onto claimed_principals and (C, faucet_amount) onto recent_claims and
\* total_claims, and leaves the custodians, the flag, the code and the
\* amount as they were.
C15_Step ==
    \A x \in Principals, c \in Codes :
        /\ state.is_faucet_enabled
        /\ c = state.faucet_code
        /\ ~Claimed(state, x)
        /\ claim_faucet(x, c)
        => /\ last' = Outcome("claim_faucet", "Ok")
           /\ state'.claimed_principals = Append(state.claimed_principals, x)
           /\ state'.recent_claims
                = Append(state.recent_claims, <<x, state.faucet_amount>>)
           /\ state'.total_claims
                = Append(state.total_claims, <<x, state.faucet_amount>>)
           /\ state'.custodians = state.custodians
           /\ state'.is_faucet_enabled = state.is_faucet_enabled
           /\ state'.faucet_code = state.faucet_code
           /\ state'.faucet_amount = state.faucet_amount

\* C15: every claim_faucet step whose preconditions hold records the claim.
C15_SuccessfulClaim == [][C15_Step]_vars

\* A claim of 5 by a principal that is not a custodian, after one of 0.
C15_Witness ==
    /\ last = Outcome("claim_faucet", "Ok")
    /\ Len(state.total_claims) = 2
    /\ state.total_claims[1][2] = 0
    /\ state.total_claims[2][2] = 5
    /\ state.faucet_amount = 5
    /\ state.total_claims[2][1] \notin state.custodians

Fields == DOMAIN DefaultState

\* The step writes value v to field f and leaves the other fields alone.
OnlyField(f, v) ==
    /\ state'[f] = v
    /\ \A g \in Fields \ {f} : state'[g] = state[g]

\* C16 (one field per administrative update): called by a custodian,
\* toggle_faucet writes only the enabled flag, set_faucet_code only the code,
\* set_faucet_amount only the amount, add_custodian and remove_custodian only
\* the custodian set, and reset_claimed_principals only empties the claimed
\* principals, the two logs included among the fields left alone.
C16_Step ==
    \A p \in state.custodians :
        /\ \A b \in BOOLEAN :
              toggle_faucet(p, b) => OnlyField("is_faucet_enabled", b)
        /\ \A c \in Codes :
              set_faucet_code(p, c) => OnlyField("faucet_code", c)
        /\ \A a \in Amounts :
              set_faucet_amount(p, a) => OnlyField("faucet_amount", a)
        /\ \A q \in Principals :
              add_custodian(p, q)
              => OnlyField("custodians", state.custodians \cup {q})
        /\ \A q \in Principals :
              remove_custodian(p, q)
              => OnlyField("custodians", state.custodians \ {q})
        /\ reset_claimed_principals(p)
              => OnlyField("claimed_principals", <<>>)

\* C16: every successful administrative step writes exactly its one field.
C16_OneField == [][C16_Step]_vars

\* The code set back to the empty string with claims on record.
C16_Witness ==
    /\ last = Outcome("set_faucet_code", "Ok")
    /\ state.faucet_code = ""
    /\ state.faucet_amount = 5
    /\ state.claimed_principals # <<>>
    /\ state.total_claims # <<>>
    /\ state.total_claims[1][2] = 5

AdminOps ==
    {"add_custodian", "remove_custodian", "toggle_faucet", "set_faucet_code",
     "set_faucet_amount", "reset_claimed_principals"}

\* C17 (permanent lockout): once the custodian set of the initialised
\* canister is empty it stays empty, every administrative update fails with
\* Unauthorized, and the enabled flag, the code and the amount keep their
\* values, through upgrades too.
C17_Step ==
    phase # "created" /\ state.custodians = {}
    => /\ state'.custodians = {}
       /\ last'.op \in AdminOps => last'.result = "Unauthorized"
       /\ state'.is_faucet_enabled = state.is_faucet_enabled
       /\ state'.faucet_code = state.faucet_code
       /\ state'.faucet_amount = state.faucet_amount

\* C17: every step taken with no custodian left keeps the lockout.
C17_PermanentLockout == [][C17_Step]_vars

C17_Witness ==
    /\ last = Outcome("add_custodian", "Unauthorized")
    /\ phase = "running"
    /\ state.custodians = {}
    /\ state.is_faucet_enabled

\* C18 (log consistency): get_recent_claims is a contiguous suffix of
\* get_total_claims in the same order, so both logs end with the same, most
\* recent, claim.
C18_LogConsistency ==
    /\ \E k \in 1..(Len(get_total_claims) + 1) :
          get_recent_claims = SubSeq(get_total_claims, k, Len(get_total_claims))
    /\ get_total_claims # <<>>
       => /\ get_recent_claims # <<>>
          /\ get_recent_claims[Len(get_recent_claims)]
               = get_total_claims[Len(get_total_claims)]

C18_Witness ==
    /\ Len(get_recent_claims) = 2
    /\ get_recent_claims[1][1] # get_recent_claims[2][1]
    /\ get_recent_claims[1][2] # get_recent_claims[2][2]
    /\ state.claimed_principals = <<>>

\* The entries of total_claims that belong to x.
EntriesOf(x) ==
    {i \in DOMAIN state.total_claims : state.total_claims[i][1] = x}

\* C19 (claims bounded by resets): every principal X has at most one entry
\* in total_claims more than there were successful resets, and X is a claimed
\* principal exactly when one of its entries was appended after the latest
\* successful reset (after init when there was none); this holds before,
\* during and after every upgrade.
C19_ClaimsPerReset ==
    \A x \in Principals :
        /\ Cardinality(EntriesOf(x)) <= 1 + audit.resets
        /\ Claimed(state, x) <=> \E i \in EntriesOf(x) : i > audit.mark

\* p claimed in each of three rounds and the canister was then upgraded.
C19_Witness ==
    /\ last = Outcome("post_upgrade", "Ok")
    /\ audit.resets = 2
    /\ \E x \in Principals :
          Cardinality(EntriesOf(x)) = 3 /\ Claimed(state, x)

=============================================================================
